---- MODULE Spec2Model ----
(***************************************************************************)
(* Model of src/code/skullFindFiducial.py: patch extraction (genPatch,     *)
(* find_init_transfo, apply_affine), template matching (checkFiducial),    *)
(* ranking for display (visualiseFiducials), and the registration kernel   *)
(* (nearest_neighbor, best_fit_transform, icp).                            *)
(*                                                                         *)
(* Numbers.  A float is modelled exactly as a fraction [n, d] in lowest    *)
(* terms with d > 0; d = 0 encodes the IEEE specials the numpy code can    *)
(* produce: [0,0] is nan, [1,0] is inf, [-1,0] is -inf.  Rounding and the  *)
(* sign of zero are not modelled.                                          *)
(*                                                                         *)
(* Arrays.  An N x 3 array whose equal rows are adjacent is modelled as a  *)
(* sequence of runs [row, n]: n consecutive rows equal to row.  len() of   *)
(* the array is the sum of the n.  An index array into such an array is a  *)
(* sequence of run indices (all rows of a run are at the same distance of  *)
(* any query, so a radius query takes a run whole).                        *)
(***************************************************************************)
EXTENDS Integers, Sequences, FiniteSets, TLC

----------------------------------------------------------------------------
(* Exact arithmetic standing for numpy float64 arithmetic. *)

\* The(S): the element of a one-element set; { e(x) : x \in {v} } names
\* the value v in e, so that it is computed once.
The(S) == CHOOSE x \in S : TRUE

Abs(k) == IF k < 0 THEN -k ELSE k

Sgn(k) == IF k < 0 THEN -1 ELSE IF k > 0 THEN 1 ELSE 0

RECURSIVE GCD(_, _)
GCD(a, b) == IF b = 0 THEN a ELSE GCD(b, a % b)

Frac(n, d) ==
    IF d = 0 THEN [n |-> Sgn(n), d |-> 0]
    ELSE LET g == GCD(Abs(n), Abs(d))
             s == Sgn(d)
         IN  [n |-> (s * n) \div g, d |-> (s * d) \div g]

I(k) == [n |-> k, d |-> 1]

NaN == Frac(0, 0)

IsNaN(x) == x.d = 0 /\ x.n = 0

IsFinite(x) == x.d # 0

FAdd(x, y) ==
    IF x.d = 1 /\ y.d = 1 THEN [n |-> x.n + y.n, d |-> 1]
    ELSE IF x.d # 0 /\ y.d # 0 THEN Frac(x.n * y.d + y.n * x.d, x.d * y.d)
    ELSE IF IsNaN(x) \/ IsNaN(y) THEN NaN
    ELSE IF x.d = 0 /\ y.d = 0 THEN (IF x.n = y.n THEN x ELSE NaN)
    ELSE IF x.d = 0 THEN x ELSE y

FNeg(x) == [n |-> -x.n, d |-> x.d]

FSub(x, y) == FAdd(x, FNeg(y))

FMul(x, y) ==
    IF x.d = 1 /\ y.d = 1 THEN [n |-> x.n * y.n, d |-> 1]
    ELSE Frac(x.n * y.n, x.d * y.d)

FInv(y) == IF y.n = 0 THEN Frac(y.d, 0) ELSE Frac(Sgn(y.n) * y.d, Abs(y.n))

FDiv(x, y) == FMul(x, FInv(y))

FAbs(x) == [n |-> Abs(x.n), d |-> x.d]

\* x < y as numpy compares floats: every comparison with nan is false
FLess(x, y) ==
    IF IsNaN(x) \/ IsNaN(y) THEN FALSE
    ELSE IF x.d = 0 /\ y.d = 0 THEN x.n < y.n
    ELSE x.n * y.d < y.n * x.d

\* the integer part of the square root
RECURSIVE FloorSqrt(_)
FloorSqrt(k) ==
    IF k < 2 THEN k
    ELSE LET s == 2 * FloorSqrt(k \div 4)
         IN  IF (s + 1) * (s + 1) > k THEN s ELSE s + 1

\* the exact square root; the inputs of the model keep every distance
\* rational, and a distance that is not has no value here
ISqrt(k) == CHOOSE r \in {FloorSqrt(k)} : r * r = k

FSqrt(x) == Frac(ISqrt(x.n), ISqrt(x.d))

----------------------------------------------------------------------------
(* Vectors, matrices and run arrays. *)

Vec(x, y, z) == <<I(x), I(y), I(z)>>

VSub(p, q) == [k \in 1..3 |-> FSub(p[k], q[k])]

VDot(p, q) == FAdd(FAdd(FMul(p[1], q[1]), FMul(p[2], q[2])), FMul(p[3], q[3]))

VCross(p, q) ==
    << FSub(FMul(p[2], q[3]), FMul(p[3], q[2])),
       FSub(FMul(p[3], q[1]), FMul(p[1], q[3])),
       FSub(FMul(p[1], q[2]), FMul(p[2], q[1])) >>

RECURSIVE FSum(_)
FSum(xs) == IF xs = <<>> THEN I(0) ELSE FAdd(Head(xs), FSum(Tail(xs)))

\* squared Euclidean distance of two points of the same dimension
Dist2(p, q) ==
    FSum([k \in 1..Len(p) |-> FMul(FSub(p[k], q[k]), FSub(p[k], q[k]))])

VHasNaN(p) == \E k \in 1..Len(p) : ~IsFinite(p[k])

RECURSIVE RowCount(_)
RowCount(arr) == IF arr = <<>> THEN 0 ELSE Head(arr).n + RowCount(Tail(arr))

Run(row, n) == [row |-> row, n |-> n]

\* arr - center, row by row (numpy broadcasting of a 3-vector over N x 3)
RowsMinus(arr, center) ==
    [k \in 1..Len(arr) |-> Run(VSub(arr[k].row, center), arr[k].n)]

ArrHasNaN(arr) == \E k \in 1..Len(arr) : VHasNaN(arr[k].row)

Identity3 == [i \in 1..3 |-> [j \in 1..3 |-> IF i = j THEN I(1) ELSE I(0)]]

MatMul3(a, b) ==
    [i \in 1..3 |-> [j \in 1..3 |->
        FAdd(FAdd(FMul(a[i][1], b[1][j]), FMul(a[i][2], b[2][j])),
             FMul(a[i][3], b[3][j]))]]

----------------------------------------------------------------------------
(* getNeighborVoxel: cKDTree.query_ball_point(points, r) for one query     *)
(* point: the indices of the rows at Euclidean distance <= r, here in      *)
(* ascending order (d <= r is decided on the squares).                     *)

getNeighborVoxel(cloud, pt, r) ==
    SelectSeq([k \in 1..Len(cloud) |-> k],
              LAMBDA k : ~FLess(FMul(r, r), Dist2(cloud[k].row, pt)))

----------------------------------------------------------------------------
(* find_init_transfo: Rodrigues' formula R = i + v + v2 / (1 + c), then    *)
(* the 4 x 4 matrix holding R, transposed, translation column set to 0.    *)

CrossMatrix(e_cross) ==
    << <<I(0), FNeg(e_cross[3]), e_cross[2]>>,
       <<e_cross[3], I(0), FNeg(e_cross[1])>>,
       <<FNeg(e_cross[2]), e_cross[1], I(0)>> >>

\* R = i + v + (v2 / (1 + c)), element by element
Rodrigues(v, v2, c) ==
    [i \in 1..3 |-> [j \in 1..3 |->
        FAdd(FAdd(Identity3[i][j], v[i][j]), FDiv(v2[i][j], FAdd(I(1), c)))]]

find_init_transfo(evec1, evec2) ==
    The({ The({ [i \in 1..4 |-> [j \in 1..4 |->
                    IF i <= 3 /\ j <= 3 THEN R[j][i]
                    ELSE IF i = 4 /\ j = 4 THEN I(1) ELSE I(0)]]
                : R \in {Rodrigues(v, MatMul3(v, v), VDot(evec1, evec2))} })
        : v \in {CrossMatrix(VCross(evec1, evec2))} })

\* one row of apply_affine: the first 3 components of init_pose . (p, 1)
AffineRow(p, init_pose) ==
    [i \in 1..3 |->
        FAdd(FAdd(FAdd(FMul(init_pose[i][1], p[1]), FMul(init_pose[i][2], p[2])),
                  FMul(init_pose[i][3], p[3])),
             FMul(init_pose[i][4], I(1)))]

apply_affine(A, init_pose) ==
    [k \in 1..Len(A) |-> Run(AffineRow(A[k].row, init_pose), A[k].n)]

----------------------------------------------------------------------------
(* genPatch.  NearestNeighbors(n_neighbors=4).fit(patch).kneighbors(point) *)
(* raises ValueError when patch has fewer than 4 rows (none included);     *)
(* otherwise it yields the 4 rows nearest to point, nearest first (rows at *)
(* equal distance in index order).                                         *)

n_neighbors == 4

\* positions of the runs of patch, nearest to pt first
NearestOrder(patch, pt) ==
    LET m == Len(patch)
        d == [k \in 1..m |-> Dist2(patch[k].row, pt)]
        Before(j, k) == FLess(d[j], d[k]) \/ (d[j] = d[k] /\ j < k)
        Rank(k) == Cardinality({j \in 1..m : Before(j, k)})
    IN  [r \in 1..m |-> CHOOSE k \in 1..m : Rank(k) = r - 1]

\* indices (positions in patch) of the n_neighbors nearest rows
kneighbors(patch, pt) ==
    LET ord == NearestOrder(patch, pt)
        Upto(r) == RowCount([s \in 1..r |-> patch[ord[s]]])
    IN  [q \in 1..n_neighbors |->
            ord[CHOOSE r \in 1..Len(patch) : Upto(r) >= q /\ Upto(r - 1) < q]]

RECURSIVE VSum(_)
VSum(vs) ==
    IF vs = <<>> THEN Vec(0, 0, 0)
    ELSE [k \in 1..3 |-> FAdd(Head(vs)[k], VSum(Tail(vs))[k])]

\* lines 205-216 on the gathered patch; orignalPatch is what line 206 keeps
genPatchCore(patch, normals, point, neighbor, orignalPatch) ==
    The({ The({ The({
        [raised |-> FALSE,
         alignedPatch |-> apply_affine(RowsMinus(patch, center), T),
         alignedNorm |-> AffineRow(norm, T),
         orignalPatch |-> orignalPatch,
         T |-> T,
         point |-> VSub(point, center)]
        : T \in {find_init_transfo(Vec(0, 0, 1), norm)} })
        : center \in {patch[indices[1]].row},
          norm \in {The({ [k \in 1..3 |-> FDiv(summed[k], I(n_neighbors))]
                     : summed \in {VSum([q \in 1..n_neighbors |->
                                   normals[neighbor[indices[q]]].row])} })} })
        : indices \in {kneighbors(patch, point)} })

\* genPatch without the deepcopy of line 206: orignalPatch aliases patch,
\* which line 207 recentres in place
genPatchNoCopy(surfaceVoxelCoord, normals, point, neighbor) ==
    The({ IF RowCount(patch) < n_neighbors
          THEN [raised |-> TRUE, point |-> point]
          ELSE genPatchCore(patch, normals, point, neighbor,
                 RowsMinus(patch, patch[kneighbors(patch, point)[1]].row))
        : patch \in {[k \in 1..Len(neighbor) |-> surfaceVoxelCoord[neighbor[k]]]} })

\* The returned record carries, next to the three returned arrays, the
\* matrix T handed to apply_affine and the value the caller's point array
\* holds after the call (point -= center of line 208 is applied in place).
genPatch(surfaceVoxelCoord, normals, point, neighbor) ==
    The({ IF RowCount(patch) < n_neighbors
          THEN [raised |-> TRUE, point |-> point]
          ELSE genPatchCore(patch, normals, point, neighbor, patch)
        : patch \in {[k \in 1..Len(neighbor) |-> surfaceVoxelCoord[neighbor[k]]]} })

----------------------------------------------------------------------------
(* genFiducialModel: the vertices returned are those of the marching-cubes *)
(* isosurface of the voxel ring (computed by skimage, not modelled: the    *)
(* model keeps none of them) followed by the rows of vert, the filled disk *)
(* of radius innerD / 2 in the plane z = 0, centred on its mean.           *)

innerD == 4

outerPixels == 14

RoundInt(x) == (2 * x.n + x.d) \div (2 * x.d)

\* the rows of vert for the cells (i, j) of the disk: lines 257-263
DiskRows(cells, PixelSpacing) ==
    The({ The({ [k \in 1..Len(cells) |->
                    Run(<<FSub(x[k], xm), FSub(y[k], ym), I(0)>>, 1)]
                : xm \in {FDiv(FSum(x), I(Len(cells)))},
                  ym \in {FDiv(FSum(y), I(Len(cells)))} })
        : x \in {[k \in 1..Len(cells) |-> FMul(I(cells[k][1]), PixelSpacing[1])]},
          y \in {[k \in 1..Len(cells) |-> FMul(I(cells[k][2]), PixelSpacing[2])]} })

\* ((k - (mPixel - 1) * 0.5) * spacing) ** 2 for k = 0 .. mPixel - 1, at k + 1
OffsetSquares(mPixel, spacing) ==
    SubSeq([k \in 1..mPixel |->
               The({ FMul(o, o)
                   : o \in {FMul(FSub(I(k - 1), Frac(mPixel - 1, 2)), spacing)} })],
           1, mPixel)

RECURSIVE Flatten(_)
Flatten(seqs) == IF seqs = <<>> THEN <<>> ELSE Head(seqs) \o Flatten(Tail(seqs))

\* the cells (i, j) with d <= innerD * 0.5 (decided on the squares), in the
\* row-major order of np.where; a row i whose own offset already exceeds
\* the radius holds no such cell and is skipped whole
DiskCells(mPixel, PixelSpacing) ==
    The({ The({ Flatten([r \in 1..Len(rows) |->
                SelectSeq([k \in 1..mPixel |-> <<rows[r], k - 1>>],
                    LAMBDA ij : ~FLess(r2, FAdd(dx2[ij[1] + 1], dy2[ij[2] + 1])))])
        : rows \in {SelectSeq([k \in 1..mPixel |-> k - 1],
                              LAMBDA i : ~FLess(r2, dx2[i + 1]))} })
        : dx2 \in {OffsetSquares(mPixel, PixelSpacing[1])},
          dy2 \in {OffsetSquares(mPixel, PixelSpacing[2])},
          r2 \in {FMul(Frac(innerD, 2), Frac(innerD, 2))} })

genFiducialModel(PixelSpacing) ==
    The({ DiskRows(DiskCells(mPixel, PixelSpacing), PixelSpacing)
        : mPixel \in { The({ IF m0 % 2 # 0 THEN m0 + 16 ELSE m0 + 15
                            : m0 \in {RoundInt(FDiv(FMul(I(outerPixels), PixelSpacing[1]),
                                                    PixelSpacing[1])) % 256} }) } })

----------------------------------------------------------------------------
(* nearest_neighbor: sklearn's 1-nearest-neighbour query of every row of   *)
(* src in dst.  It raises ValueError on an empty array and on an array     *)
(* holding nan or inf; rows of dst at equal distance: the lowest index.    *)

nearest_neighbor(src, dst) ==
    IF RowCount(src) = 0 \/ RowCount(dst) = 0 \/ ArrHasNaN(src) \/ ArrHasNaN(dst)
    THEN [raised |-> TRUE]
    ELSE
    LET \* squared distances of row p to the rows of dst
        d2(p) == SubSeq([j \in 1..Len(dst) |-> Dist2(p, dst[j].row)], 1, Len(dst))
        best(d) == CHOOSE j \in 1..Len(d) :
                      /\ \A l \in 1..Len(d) : ~FLess(d[l], d[j])
                      /\ \A l \in 1..(j - 1) : FLess(d[j], d[l])
        \* <<index, distance>> of the nearest row, per row of src
        nn == SubSeq([k \in 1..Len(src) |->
                        The({ The({ <<j, FSqrt(d[j])>> : j \in {best(d)} })
                            : d \in {d2(src[k].row)} })],
                     1, Len(src))
    IN  The({ [raised |-> FALSE,
               distances |-> [k \in 1..Len(src) |-> Run(r[k][2], src[k].n)],
               indices |-> [k \in 1..Len(src) |-> Run(r[k][1], src[k].n)]]
            : r \in {nn} })

\* np.mean of a vector of floats held as runs [row |-> value, n |-> count]
Mean(xs) ==
    FDiv(FSum([k \in 1..Len(xs) |-> FMul(xs[k].row, I(xs[k].n))]),
         I(RowCount(xs)))

\* The second value icp(A, B, max_iterations=1) returns.  One pass of the
\* loop: distances from the rows of A (no init_pose) to their nearest rows
\* of B, error_arr = [mean(distances)], result min(error_arr) /
\* len(distances).  The transform of the pass does not enter this value.
icp_single_pass(A, B) ==
    The({ IF nn.raised THEN [raised |-> TRUE]
          ELSE [raised |-> FALSE,
                cost |-> FDiv(Mean(nn.distances), I(RowCount(nn.distances)))]
        : nn \in {nearest_neighbor(A, B)} })

----------------------------------------------------------------------------
(* best_fit_transform and the passes of icp, for points of dimension 1     *)
(* (dim = A.shape[1] = 1), where the singular value decomposition is the   *)
(* sign of a number and every value stays rational.                        *)

\* Row k of A corresponds to row k of B; both arrays carry the same runs
\* wherever the lengths agree.
\* np.dot(AA.T, BB) raises ValueError when the two lengths differ.  For the
\* 1 x 1 matrix H, svd gives U * Vt = sign(H), so R = Vt.T * U.T is -1 or 1
\* and the reflection branch turns -1 into 1.  The mean of an empty array
\* is nan (numpy warns and goes on).
best_fit_transform(A, B) ==
    IF RowCount(A) # RowCount(B) THEN [raised |-> TRUE]
    ELSE The({ The({ The({
             [raised |-> FALSE,
              R |-> R,
              t |-> FSub(centroid_B, FMul(R, centroid_A)),
              T |-> << <<R, FSub(centroid_B, FMul(R, centroid_A))>>,
                       <<I(0), I(1)>> >>]
             : R \in {IF FLess(R0, I(0)) THEN FNeg(R0) ELSE R0} })
             : R0 \in { IF FLess(FSum([k \in 1..Len(A) |->
                              FMul(I(A[k].n),
                                   FMul(FSub(A[k].row[1], centroid_A),
                                        FSub(B[k].row[1], centroid_B)))]), I(0))
                        THEN I(-1) ELSE I(1) } })
             : centroid_A \in {Mean([k \in 1..Len(A) |-> Run(A[k].row[1], A[k].n)])},
               centroid_B \in {Mean([k \in 1..Len(B) |-> Run(B[k].row[1], B[k].n)])} })

\* np.dot(T, src) on homogeneous 1-D points: every row x becomes R * x + t
Transform1(T, src) ==
    [k \in 1..Len(src) |->
        Run(<<FAdd(FMul(T[1][1], src[k].row[1]), T[1][2])>>, src[k].n)]

\* the break test of line 140, without the np.abs
ConvergedSigned(prev_error, mean_error, tolerance) ==
    FLess(FSub(prev_error, mean_error), tolerance)

\* the break test of line 140
Converged(prev_error, mean_error, tolerance) ==
    FLess(FAbs(FSub(prev_error, mean_error)), tolerance)

\* np.array(error_arr).min()
MinOf(xs) == CHOOSE m \in {xs[k] : k \in 1..Len(xs)} :
                 \A k \in 1..Len(xs) : ~FLess(xs[k], m)

\* One pass of the loop of icp (lines 128-142) from the values src,
\* prev_error, error_arr hold when it starts.
icp_pass(src, dst, prev_error, error_arr, tolerance) ==
    The({ IF nn.raised THEN [raised |-> TRUE]
          ELSE The({ The({
                [raised |-> FALSE,
                 src |-> Transform1(T.T, src),
                 distances |-> nn.distances,
                 error_arr |-> Append(error_arr, mean_error),
                 break |-> Converged(prev_error, mean_error, tolerance),
                 prev_error |-> IF Converged(prev_error, mean_error, tolerance)
                                THEN prev_error ELSE mean_error]
                : mean_error \in {Mean(nn.distances)} })
                : T \in {best_fit_transform(src,
                            [k \in 1..Len(src) |->
                                Run(dst[nn.indices[k].row].row, src[k].n)])} })
        : nn \in {nearest_neighbor(src, dst)} })

\* lines 144-148: what icp returns once the loop has ended with loop index i
icp_result(A, src, error_arr, distances, i) ==
    [T |-> best_fit_transform(A, src).T,
     cost |-> FDiv(MinOf(error_arr), I(RowCount(distances))),
     i |-> i]

----------------------------------------------------------------------------
(* Bounds and inputs of the matching pass.                                *)

MaxPoi == 2

MaxMarkers == 3

sigma == 100

points_thresh == 800

radius == Frac(24, 5)

Up == Vec(0, 0, 1)

Down == Vec(0, 0, -1)

Side == Vec(1, 0, 0)

\* the rows a site contributes: size \div 2 rows at pos with normal nrm,
\* the others one unit further along x with normal Up
SiteRuns(pos, size, nrm) ==
    LET n1 == size \div 2
        n2 == size - n1
        r1 == IF n1 > 0 THEN <<[p |-> pos, v |-> nrm, n |-> n1]>> ELSE <<>>
        r2 == IF n2 > 0
              THEN <<[p |-> <<FAdd(pos[1], I(1)), pos[2], pos[3]>>, v |-> Up, n |-> n2]>>
              ELSE <<>>
    IN  r1 \o r2

Sizes == {0, 3, 5, points_thresh - 1, points_thresh, points_thresh + 1}

\* site at the origin: every size with normal Up, and a small and a large
\* site with a normal opposite to, or across, the vertical
Site1Kinds ==
    { <<s, Up>> : s \in Sizes }
        \cup { <<s, v>> : s \in {5, points_thresh + 1}, v \in {Down, Side} }

Site2Kinds == { <<5, Up>>, <<points_thresh + 1, Up>> }

Scenes ==
    { SiteRuns(Vec(0, 0, 0), k1[1], k1[2]) \o SiteRuns(Vec(20, 0, 0), k2[1], k2[2]) :
        k1 \in Site1Kinds, k2 \in Site2Kinds }

\* query voxels: scaled by the spacing they fall on a site, beside it or
\* away from every point
PoiSet == { <<0, 0, 0>>, <<1, 1, 0>>, <<10, 0, 0>> }

PoiLists == UNION { [1..n -> PoiSet] : n \in 1..MaxPoi }

Spacings == { Vec(1, 1, 1), Vec(2, 2, 2) }

----------------------------------------------------------------------------
VARIABLES
    pointCloud,         \* argument of checkFiducial: the surface points
    normalstotal,       \* argument of checkFiducial: their normals
    vFiducial,          \* global: the cached reference model vertices
    ConstPixelSpacing,  \* global
    pc,                 \* "idle", "extract" (first loop), "cost" (second
                        \* loop), "done" (returned), "raised" (exception)
    poi,                \* argument of the running call
    point,              \* local: poi * ConstPixelSpacing
    neighbor1,          \* local: one index list per query point
    alignedPatches,     \* local
    patches,            \* local, returned
    transfos,           \* log: the matrix find_init_transfo gave each candidate
    cost,               \* local, returned
    count,              \* local: small point clouds detected
    i,                  \* loop index of the running loop (from 1)
    genCalls,           \* log: the spacings genFiducialModel was run for
    icpCalls,           \* log: the icp invocations of the running call
    vis,                \* outcome of visualiseFiducials on the returned lists
    \* a call of icp on 1-D points, and a direct call of best_fit_transform
    ipc,                \* "idle", "loop", "done" (returned), "raised"
    icpA,               \* argument A
    icpB,               \* argument B
    max_iterations,     \* argument
    tolerance,          \* argument
    src,                \* local: the current source points
    prev_error,         \* local
    error_arr,          \* local
    distances,          \* local: distances of the last pass
    passes,             \* number of passes of the loop body executed
    ret,                \* the returned (T, cost, i)
    bft                 \* the last direct best_fit_transform call

mvars == <<pointCloud, normalstotal, vFiducial, ConstPixelSpacing, pc, poi,
           point, neighbor1, alignedPatches, patches, transfos, cost, count,
           i, genCalls, icpCalls, vis>>

ivars == <<ipc, icpA, icpB, max_iterations, tolerance, src, prev_error,
           error_arr, distances, passes, ret, bft>>

vars == <<mvars, ivars>>

NoVis == [state |-> "none", shown |-> <<>>]

\* before the first call: the module globals of lines 22-24
MatchIdle ==
    /\ vFiducial = <<>>
    /\ ConstPixelSpacing = Vec(1, 1, 1)
    /\ pc = "idle"
    /\ poi = <<>>
    /\ point = <<>>
    /\ neighbor1 = <<>>
    /\ alignedPatches = <<>>
    /\ patches = <<>>
    /\ transfos = <<>>
    /\ cost = <<>>
    /\ count = 0
    /\ i = 0
    /\ genCalls = <<>>
    /\ icpCalls = <<>>
    /\ vis = NoVis

MatchInit ==
    /\ \E sc \in Scenes :
          /\ pointCloud = [k \in 1..Len(sc) |-> Run(sc[k].p, sc[k].n)]
          /\ normalstotal = [k \in 1..Len(sc) |-> Run(sc[k].v, sc[k].n)]
    /\ MatchIdle

\* checkFiducial, lines 281-291 and the initialisations of both loops
CallCheckFiducial(p, PixelSpacing) ==
    /\ pc = "idle"
    /\ ConstPixelSpacing' = PixelSpacing
    /\ IF Len(vFiducial) = 0
       THEN /\ vFiducial' = genFiducialModel(PixelSpacing)
            /\ genCalls' = Append(genCalls, PixelSpacing)
       ELSE UNCHANGED <<vFiducial, genCalls>>
    /\ poi' = p
    /\ point' = [k \in 1..Len(p) |->
                    [c \in 1..3 |-> FMul(I(p[k][c]), PixelSpacing[c])]]
    /\ neighbor1' = [k \in 1..Len(p) |->
                        getNeighborVoxel(pointCloud, point'[k], radius)]
    /\ alignedPatches' = <<>>
    /\ patches' = <<>>
    /\ transfos' = <<>>
    /\ cost' = <<>>
    /\ count' = 0
    /\ icpCalls' = <<>>
    /\ vis' = NoVis
    /\ i' = 1
    /\ pc' = "extract"
    /\ UNCHANGED <<pointCloud, normalstotal>>
    /\ UNCHANGED ivars

\* one pass of the loop of lines 293-297.  np.array(patches) of line 298
\* keeps entry k as the k-th patch (an object array when the patches differ
\* in length, under the numpy of this Python 2 code).
ExtractPatch ==
    /\ pc = "extract"
    /\ \E g \in {genPatch(pointCloud, normalstotal, point[i], neighbor1[i])} :
           IF g.raised
           THEN /\ pc' = "raised"
                /\ UNCHANGED <<point, alignedPatches, patches, transfos, i>>
           ELSE /\ point' = [point EXCEPT ![i] = g.point]
                /\ alignedPatches' = Append(alignedPatches, g.alignedPatch)
                /\ patches' = Append(patches, g.orignalPatch)
                /\ transfos' = Append(transfos, g.T)
                /\ IF i = Len(point)
                   THEN pc' = "cost" /\ i' = 1
                   ELSE pc' = "extract" /\ i' = i + 1
    /\ UNCHANGED <<pointCloud, normalstotal, vFiducial, ConstPixelSpacing, poi,
                   neighbor1, cost, count, genCalls, icpCalls, vis>>
    /\ UNCHANGED ivars

\* one pass of the loop of lines 305-310; the last pass returns (line 314)
CostPatch ==
    /\ pc = "cost"
    /\ IF RowCount(alignedPatches[i]) > points_thresh
       THEN \E r \in {icp_single_pass(alignedPatches[i], vFiducial)} :
                /\ icpCalls' = Append(icpCalls,
                       [cand |-> i, A |-> alignedPatches[i], B |-> vFiducial,
                        max_iterations |-> 1, raised |-> r.raised,
                        cost |-> IF r.raised THEN NaN ELSE r.cost])
                /\ IF r.raised
                   THEN pc' = "raised" /\ UNCHANGED <<cost, i>>
                   ELSE /\ cost' = Append(cost, r.cost)
                        /\ IF i = Len(point)
                           THEN pc' = "done" /\ i' = i
                           ELSE pc' = "cost" /\ i' = i + 1
                /\ UNCHANGED count
       ELSE /\ count' = count + 1
            /\ cost' = Append(cost, I(sigma))
            /\ IF i = Len(point)
               THEN pc' = "done" /\ i' = i
               ELSE pc' = "cost" /\ i' = i + 1
            /\ UNCHANGED icpCalls
    /\ UNCHANGED <<pointCloud, normalstotal, vFiducial, ConstPixelSpacing, poi,
                   point, neighbor1, alignedPatches, patches, transfos,
                   genCalls, vis>>
    /\ UNCHANGED ivars

----------------------------------------------------------------------------
(* visualiseFiducials: the indices cost.index(cost_sorted[i]) of the       *)
(* patches handed to mlab.points3d, in plotting order.  cost_sorted[i]     *)
(* raises IndexError once i reaches len(cost).                             *)

\* np.sort(cost): positions of cost in non-decreasing order of value
SortOrder(c) ==
    LET Before(j, k) == FLess(c[j], c[k]) \/ (c[j] = c[k] /\ j < k)
        Rank(k) == Cardinality({j \in 1..Len(c) : Before(j, k)})
    IN  [r \in 1..Len(c) |-> CHOOSE k \in 1..Len(c) : Rank(k) = r - 1]

\* list.index(v): the first position holding v
IndexOf(c, v) == CHOOSE k \in 1..Len(c) : c[k] = v /\ \A j \in 1..(k - 1) : c[j] # v

visualiseFiducials(c, num_markers, show_markers) ==
    LET cost_sorted == [r \in 1..Len(c) |-> c[SortOrder(c)[r]]]
        plotted == IF num_markers <= Len(c) THEN num_markers ELSE Len(c)
    IN  IF ~show_markers THEN [state |-> "shown", shown |-> <<>>]
        ELSE [state |-> IF num_markers > Len(c) THEN "raised" ELSE "shown",
              shown |-> [r \in 1..plotted |-> IndexOf(c, cost_sorted[r])]]

Visualise(num_markers, show_markers) ==
    /\ pc = "done"
    /\ vis.state = "none"
    /\ vis' = visualiseFiducials(cost, num_markers, show_markers)
    /\ UNCHANGED <<pointCloud, normalstotal, vFiducial, ConstPixelSpacing, pc,
                   poi, point, neighbor1, alignedPatches, patches, transfos,
                   cost, count, i, genCalls, icpCalls>>
    /\ UNCHANGED ivars

\* The caller is done with what the call returned or raised: the locals of
\* the call are gone, the module globals stay.
Discard ==
    /\ pc \in {"done", "raised"}
    /\ pc' = "idle"
    /\ poi' = <<>>
    /\ point' = <<>>
    /\ neighbor1' = <<>>
    /\ alignedPatches' = <<>>
    /\ patches' = <<>>
    /\ transfos' = <<>>
    /\ cost' = <<>>
    /\ count' = 0
    /\ i' = 0
    /\ icpCalls' = <<>>
    /\ vis' = NoVis
    /\ UNCHANGED <<pointCloud, normalstotal, vFiducial, ConstPixelSpacing, genCalls>>
    /\ UNCHANGED ivars

MatchNext ==
    \/ \E p \in PoiLists, sp \in Spacings : CallCheckFiducial(p, sp)
    \/ ExtractPatch
    \/ CostPatch
    \/ \E m \in 1..MaxMarkers, show \in BOOLEAN : Visualise(m, show)
    \/ Discard

----------------------------------------------------------------------------
(* Calls of icp and of best_fit_transform on 1-D points.                   *)

MaxPts == 2

MaxIter == 3

Coords == {0, 1, 4, 6}

\* arrays of up to MaxPts rows in non-decreasing order, one row per run
Arrays1 ==
    { [k \in 1..Len(xs) |-> Run(<<I(xs[k])>>, 1)] :
        xs \in { s \in UNION { [1..n -> Coords] : n \in 0..MaxPts } :
                    \A k \in 1..(Len(s) - 1) : s[k] <= s[k + 1] } }

Tolerances == { Frac(1, 1000), Frac(1, 2) }

\* init_pose: None (the empty tuple) or a homogeneous 2 x 2 matrix
Poses == { <<>>, << <<I(1), I(1)>>, <<I(0), I(1)>> >> }

NoCall == [called |-> FALSE]

IcpInit ==
    /\ ipc = "idle"
    /\ icpA = <<>>
    /\ icpB = <<>>
    /\ max_iterations = 0
    /\ tolerance = I(0)
    /\ src = <<>>
    /\ prev_error = I(0)
    /\ error_arr = <<>>
    /\ distances = <<>>
    /\ passes = 0
    /\ ret = <<>>
    /\ bft = NoCall

\* icp, lines 109-124; range(0) leaves the loop at once, and line 146 then
\* raises ValueError on the minimum of an empty array
CallIcp ==
    /\ ipc = "idle"
    /\ ~bft.called
    /\ \E A \in Arrays1, B \in Arrays1, init_pose \in Poses,
          maxit \in 0..MaxIter, tol \in Tolerances :
          /\ icpA' = A
          /\ icpB' = B
          /\ max_iterations' = maxit
          /\ tolerance' = tol
          /\ src' = IF init_pose = <<>> THEN A ELSE Transform1(init_pose, A)
          /\ ipc' = IF maxit = 0 THEN "raised" ELSE "loop"
    /\ prev_error' = I(0)
    /\ error_arr' = <<>>
    /\ distances' = <<>>
    /\ passes' = 0
    /\ ret' = <<>>
    /\ UNCHANGED bft
    /\ UNCHANGED mvars

\* one pass of the loop, lines 125-142; the pass that ends the loop (break,
\* or the last value of range(max_iterations)) goes on to lines 144-148
IcpPass ==
    /\ ipc = "loop"
    /\ \E r \in {icp_pass(src, icpB, prev_error, error_arr, tolerance)} :
          IF r.raised
          THEN /\ ipc' = "raised"
               /\ UNCHANGED <<src, prev_error, error_arr, distances, passes, ret>>
          ELSE /\ src' = r.src
               /\ prev_error' = r.prev_error
               /\ error_arr' = r.error_arr
               /\ distances' = r.distances
               /\ passes' = passes + 1
               /\ IF r.break \/ passes + 1 = max_iterations
                  THEN /\ ipc' = "done"
                       /\ ret' = icp_result(icpA, r.src, r.error_arr,
                                            r.distances, passes)
                  ELSE /\ ipc' = "loop"
                       /\ UNCHANGED ret
    /\ UNCHANGED <<icpA, icpB, max_iterations, tolerance, bft>>
    /\ UNCHANGED mvars

CallBestFitTransform ==
    /\ ipc = "idle"
    /\ ~bft.called
    /\ \E A \in Arrays1, B \in Arrays1 :
          bft' = [called |-> TRUE, A |-> A, B |-> B,
                  out |-> best_fit_transform(A, B)]
    /\ UNCHANGED <<ipc, icpA, icpB, max_iterations, tolerance, src, prev_error,
                   error_arr, distances, passes, ret>>
    /\ UNCHANGED mvars

IcpNext ==
    \/ CallIcp
    \/ IcpPass
    \/ CallBestFitTransform

\* the matching pass: checkFiducial calls and visualiseFiducials
Init == MatchInit /\ IcpInit

Spec == Init /\ [][MatchNext]_vars

\* the registration kernel alone, on an empty scene
InitIcp ==
    /\ pointCloud = <<>>
    /\ normalstotal = <<>>
    /\ MatchIdle
    /\ IcpInit

SpecIcp == InitIcp /\ [][IcpNext]_vars

----------------------------------------------------------------------------
(* Properties of the matching pass (checked under Spec).                   *)

\* the k-th query point as line 289 computes it: poi * ConstPixelSpacing
QueryPoint(k) == [c \in 1..3 |-> FMul(I(poi[k][c]), ConstPixelSpacing[c])]

\* the rows of the point cloud an index list selects: pointCloud[neighbor]
Gather(neighbor) == [j \in 1..Len(neighbor) |-> pointCloud[neighbor[j]]]

\* C1, as claimed: every costed candidate whose aligned patch has fewer
\* than 800 points has the cost 100, is counted once as a small point cloud
\* and has no icp invocation; every costed candidate whose aligned patch
\* has 800 points or more has exactly one icp invocation, made with
\* max_iterations = 1, and its cost is the value that invocation reported.
C1_ThresholdInclusive ==
    /\ \A k \in 1..Len(cost) :
          LET calls == { c \in 1..Len(icpCalls) : icpCalls[c].cand = k }
          IN  IF RowCount(alignedPatches[k]) < points_thresh
              THEN cost[k] = I(sigma) /\ calls = {}
              ELSE /\ Cardinality(calls) = 1
                   /\ \A c \in calls : /\ icpCalls[c].max_iterations = 1
                                       /\ cost[k] = icpCalls[c].cost
    /\ count = Cardinality({ k \in 1..Len(cost) :
                                RowCount(alignedPatches[k]) < points_thresh })

\* C2, as claimed: genFiducialModel has run at most once for each spacing,
\* and every icp invocation of the running call registers against the
\* model of the spacing that call was given.
C2_CacheKeyedBySpacing ==
    /\ \A a, b \in 1..Len(genCalls) : genCalls[a] = genCalls[b] => a = b
    /\ \A c \in 1..Len(icpCalls) :
          icpCalls[c].B = genFiducialModel(ConstPixelSpacing)

\* C3, as claimed: no call is aborted at a candidate whose radius query
\* gave fewer than 4 points (none included), and in the returned lists
\* such a candidate carries the sentinel cost.
C3_SmallNeighbourhoodNeverAborts ==
    /\ ~(/\ pc = "raised"
         /\ Len(patches) < Len(poi)
         /\ RowCount(Gather(neighbor1[i])) < n_neighbors)
    /\ pc = "done" =>
          \A k \in 1..Len(poi) :
              RowCount(Gather(neighbor1[k])) < n_neighbors => cost[k] = I(sigma)

\* C4: when checkFiducial returns, cost and patches have one entry per
\* query point; entry k of patches is the rows of the point cloud within
\* the radius of query point k, as they stand in the cloud (not recentred,
\* not rotated), and entry k of cost is the cost of that query point's
\* aligned patch: the icp value above the threshold, the sentinel otherwise.
C4_ParallelResultsInOrder ==
    pc = "done" =>
        /\ Len(cost) = Len(poi)
        /\ Len(patches) = Len(poi)
        /\ \A k \in 1..Len(poi) :
              \E nb \in {getNeighborVoxel(pointCloud, QueryPoint(k), radius)} :
              \E g \in {genPatch(pointCloud, normalstotal, QueryPoint(k), nb)} :
                 /\ patches[k] = Gather(nb)
                 /\ cost[k] = IF RowCount(g.alignedPatch) > points_thresh
                              THEN icp_single_pass(g.alignedPatch, vFiducial).cost
                              ELSE I(sigma)

\* C4: a call returned for two query points with different costs and
\* different patches, one cost coming from icp, one patch holding no row at
\* the origin (recentring it would have changed it).
C4_Witness ==
    /\ pc = "done"
    /\ Len(poi) = 2
    /\ cost[1] # cost[2]
    /\ patches[1] # patches[2]
    /\ Len(icpCalls) >= 1
    /\ \E k \in 1..2 : \A j \in 1..Len(patches[k]) : patches[k][j].row # Vec(0, 0, 0)

\* C5, as claimed: a genPatch call (one pass of the extraction loop) leaves
\* the point cloud, the normals, the neighbour index lists and the query
\* points of the caller as they were.
C5_GenPatchLeavesInputs ==
    [][pc = "extract" =>
          /\ pointCloud' = pointCloud
          /\ normalstotal' = normalstotal
          /\ neighbor1' = neighbor1
          /\ point' = point]_vars

\* C6, as claimed: the alignment step never hands back a matrix with an
\* entry that is not finite (the anti-parallel normal is reported instead).
C6_AntiParallelDetected ==
    \A k \in 1..Len(transfos) :
        \A r \in 1..4, c \in 1..4 : IsFinite(transfos[k][r][c])

\* C10, as claimed: with num_markers <= len(cost), the patches plotted are
\* those of num_markers distinct candidates, in non-decreasing order of
\* cost, and no candidate left out is cheaper than one plotted.
C10_DistinctLowestCosts ==
    vis.state = "shown" =>
        /\ \A a, b \in 1..Len(vis.shown) : vis.shown[a] = vis.shown[b] => a = b
        /\ \A a \in 1..(Len(vis.shown) - 1) :
              ~FLess(cost[vis.shown[a + 1]], cost[vis.shown[a]])
        /\ \A k \in 1..Len(cost) :
              (\A a \in 1..Len(vis.shown) : vis.shown[a] # k) =>
                  \A a \in 1..Len(vis.shown) : ~FLess(cost[k], cost[vis.shown[a]])

----------------------------------------------------------------------------
(* Properties of the registration kernel (checked under SpecIcp).          *)

\* C7, as claimed: best_fit_transform raises exactly when len(A) = len(B)
\* >= 1 does not hold, and returns a transform otherwise.
C7_RaisesOutsidePrecondition ==
    bft.called =>
        (bft.out.raised <=>
            ~(RowCount(bft.A) = RowCount(bft.B) /\ RowCount(bft.A) >= 1))

\* C8, as claimed: the third value icp returns is the number of passes of
\* the loop body it executed.
C8_ReturnedCountIsPasses ==
    ipc = "done" => ret.i = passes

\* C9, amended: while the loop runs no executed pass met the break test,
\* and fewer than max_iterations passes are done; when icp returns, between
\* 1 and max_iterations passes were executed, none before the last met the
\* break test, and if fewer than max_iterations were executed the last one
\* met it.  The break test of pass k compares its mean distance with that
\* of pass k - 1, and for the first pass with 0: a first pass whose own mean
\* distance is below tolerance ends the loop.  A transform, a cost and a
\* count are returned in every case.
C9_StopsAtFirstSmallChange ==
    LET Stops(k) == FLess(FAbs(FSub(IF k = 1 THEN I(0) ELSE error_arr[k - 1],
                                    error_arr[k])), tolerance)
    IN  /\ ipc = "loop" =>
              /\ passes < max_iterations
              /\ Len(error_arr) = passes
              /\ \A k \in 1..passes : ~Stops(k)
        /\ ipc = "done" =>
              /\ 1 <= passes /\ passes <= max_iterations
              /\ Len(error_arr) = passes
              /\ \A k \in 1..(passes - 1) : ~Stops(k)
              /\ passes < max_iterations => Stops(passes)
              /\ DOMAIN ret = {"T", "cost", "i"}

\* C9, as claimed: the same, but the first pass, having no previous pass,
\* never meets the break test.
C9_FirstPassNeverStops ==
    LET Stops(k) == /\ k > 1
                    /\ FLess(FAbs(FSub(error_arr[k - 1], error_arr[k])), tolerance)
    IN  /\ ipc = "loop" =>
              /\ passes < max_iterations
              /\ Len(error_arr) = passes
              /\ \A k \in 1..passes : ~Stops(k)
        /\ ipc = "done" =>
              /\ 1 <= passes /\ passes <= max_iterations
              /\ Len(error_arr) = passes
              /\ \A k \in 1..(passes - 1) : ~Stops(k)
              /\ passes < max_iterations => Stops(passes)
              /\ DOMAIN ret = {"T", "cost", "i"}

\* C9: icp returned after its first pass although more were allowed
C9_Witness ==
    /\ ipc = "done"
    /\ passes = 1
    /\ max_iterations > 1

====
